---- MODULE Spec2Model ----
(***************************************************************************)
(* Link resolution and press dispatch of src/components/Link.tsx: the     *)
(* useLink hook, its memoised onPress handler, and the two components     *)
(* (Link, InlineLink) that feed it.                                        *)
(*                                                                         *)
(* A press is one synchronous run of the handler.  The handler's effects  *)
(* on its collaborators (caller callback, event, modal controller,        *)
(* Linking, router, navigation) are recorded, in call order, in `calls`.  *)
(* The results of the helpers that live outside Link.tsx (useLinkProps,   *)
(* isExternalUrl, linkRequiresWarning, the caller's callback) are inputs: *)
(* they are drawn from small sets and never computed here.                *)
(***************************************************************************)
EXTENDS Naturals, Sequences, FiniteSets

\* Largest number of pointer inputs (middle button, meta, alt, ctrl, shift)
\* that one press event reports together.
MaxHeld == 1

\* Largest number of transitions the navigation object receives in one run
\* of the model.
MaxDispatched == 2

----------------------------------------------------------------------------
\* Values

\* hrefs are sequences of characters, so that String.startsWith is computed.
HrefProfile == <<"/", "p", "r", "o", "f", "i", "l", "e", "/", "a", "l", "i", "c", "e">>
HrefOther   == <<"h", "t", "t", "p", "s", ":", "/", "/", "o", "t", "h", "e", "r", ".", "c", "o", "m">>
HrefMail    == <<"m", "a", "i", "l", "t", "o", ":", "a", "@", "b", ".", "c">>
HrefSearch  == <<"/", "s", "e", "a", "r", "c", "h", "?", "q", "=", "h", "t", "t", "p">>
Hrefs       == {HrefProfile, HrefOther, HrefMail, HrefSearch}

PrefixHttp   == <<"h", "t", "t", "p">>
PrefixMailto == <<"m", "a", "i", "l", "t", "o">>

\* String.prototype.startsWith
startsWith(s, p) == Len(s) >= Len(p) /\ SubSeq(s, 1, Len(p)) = p

\* `children`: a string, or a React element (which may itself render text).
ChildrenValues ==
    { [isString |-> TRUE,  text |-> "example.com"],
      [isString |-> TRUE,  text |-> ""],
      [isString |-> FALSE, text |-> "example.com"] }

\* The `action` prop as the caller passes it; "pop" stands for any value
\* outside the declared union.
ActionValues == {"undefined", "push", "replace", "navigate", "pop"}
SupportedActions == {"push", "replace", "navigate"}

WarnValues     == {"undefined", "true", "false"}
DownloadValues == {"undefined", "file.pdf"}
\* What the caller's onPress callback may return.
ReturnValues   == {"false", "undefined", "true", "0"}
Kinds          == {"Link", "InlineLink"}

\* JavaScript truthiness of the values above.
Truthy(v) == v \notin {"undefined", "false", "0", ""}

\* The part of a press event the handler reads.
AllEvents ==
    [button : {0, 1}, metaKey : BOOLEAN, altKey : BOOLEAN,
     ctrlKey : BOOLEAN, shiftKey : BOOLEAN]
B2N(b) == IF b THEN 1 ELSE 0
Held(e) == e.button + B2N(e.metaKey) + B2N(e.altKey) + B2N(e.ctrlKey) + B2N(e.shiftKey)
Events == {e \in AllEvents : Held(e) <= MaxHeld}
PlainEvent ==
    [button |-> 0, metaKey |-> FALSE, altKey |-> FALSE,
     ctrlKey |-> FALSE, shiftKey |-> FALSE]

\* One recorded call: the callee and its arguments (blank where unused).
Call(fn, name, text, href) == [fn |-> fn, name |-> name, text |-> text, href |-> href]
Ev(fn) == Call(fn, "", "", <<>>)

----------------------------------------------------------------------------
\* State

VARIABLES
    isWeb,        \* platform surface flag (#/platform/detection)
    kind,         \* which component is mounted: Link or InlineLink
    props,        \* the props of the latest render
    link,         \* useLink's render values: href and isExternal
    handler,      \* the values captured by the memoised onPress closure
    activeModal,  \* the modal controller's overlay
    dispatched,   \* how many transitions the navigation object has received
    pc,           \* "idle", or "done" right after a handler invocation
    event,        \* the event of the press just handled
    cbReturn,     \* what the caller's callback returned in that press
    mismatch,     \* what linkRequiresWarning(href, displayText) answers in that press
    calls         \* the calls the press made, in order

vars == <<isWeb, kind, props, link, handler, activeModal, dispatched, pc, event,
          cbReturn, mismatch, calls>>

----------------------------------------------------------------------------
\* The components: what Link and InlineLink hand to useLink

\* `typeof children === 'string' ? children : ''`
displayTextOf(children) == IF children.isString THEN children.text ELSE ""

\* `action = 'push'` in the parameter list
defaultAction(a) == IF a = "undefined" THEN "push" ELSE a

\* Fault: Link forwards the warning opt-in.
LinkArgs_forwardsWarn(p) ==
    [displayText |-> displayTextOf(p.children),
     action |-> defaultAction(p.action),
     warnOnMismatchingTextChild |-> p.warnOnMismatchingTextChild,
     onPress |-> p.onPress]

\* Link: warnOnMismatchingTextChild is not among the arguments of useLink.
LinkArgs(p) ==
    [displayText |-> displayTextOf(p.children),
     action |-> defaultAction(p.action),
     warnOnMismatchingTextChild |-> "undefined",
     onPress |-> p.onPress]

InlineLinkArgs(p) ==
    [displayText |-> displayTextOf(p.children),
     action |-> defaultAction(p.action),
     warnOnMismatchingTextChild |-> p.warnOnMismatchingTextChild,
     onPress |-> p.onPress]

useLinkArgs(k, p) == IF k = "Link" THEN LinkArgs(p) ELSE InlineLinkArgs(p)

\* Fault: the handler is attached whatever `download` is.
handlerAttached_always(p) == TRUE

\* `onPress={download ? undefined : onPress}`
handlerAttached(p) == ~Truthy(p.download)

----------------------------------------------------------------------------
\* useLink

\* The values the onPress closure of one render captures.
useLinkClosure(args, lk) ==
    [href |-> lk.href,
     isExternal |-> lk.isExternal,
     displayText |-> args.displayText,
     action |-> defaultAction(args.action),
     warnOnMismatchingTextChild |-> args.warnOnMismatchingTextChild,
     outerOnPress |-> args.onPress]

\* Fault: displayText is missing from the dependency list.
dependencies_noDisplayText(c) ==
    <<c.href, c.isExternal, c.warnOnMismatchingTextChild, c.action,
      c.outerOnPress>>

\* The dependency list of React.useCallback (navigation, closeModal and
\* openModal are stable collaborators and carry no state here).
dependencies(c) ==
    <<c.href, c.isExternal, c.warnOnMismatchingTextChild, c.action,
      c.displayText, c.outerOnPress>>

\* React.useCallback: keep the previous closure unless a dependency changed.
useCallback(previous, next) ==
    IF dependencies(next) # dependencies(previous) THEN next ELSE previous

----------------------------------------------------------------------------
\* The handler, onPress

\* `outerOnPress?.(e)`: undefined when no callback is registered.
exitEarlyIfFalse(c, ret) == IF c.outerOnPress THEN ret ELSE "undefined"

\* Faults of the early exit: it tests for true; it tests for any falsy value.
exitsEarly_onTrue(v) == v = "true"
exitsEarly_onFalsy(v) == ~Truthy(v)

\* `if (exitEarlyIfFalse === false) return`
exitsEarly(v) == v = "false"

\* Fault: the warning opt-in is not consulted.
requiresWarning_noOptIn(c, lrw) ==
    /\ Truthy(c.displayText)
    /\ c.isExternal
    /\ lrw

\* Fault: the externality flag is not consulted.
requiresWarning_noExternal(c, lrw) ==
    /\ Truthy(c.warnOnMismatchingTextChild)
    /\ Truthy(c.displayText)
    /\ lrw

\* lrw is the answer of linkRequiresWarning(href, displayText).
requiresWarning(c, lrw) ==
    /\ Truthy(c.warnOnMismatchingTextChild)
    /\ Truthy(c.displayText)
    /\ c.isExternal
    /\ lrw

\* Fault: the middle button is read on every surface.
isMiddleClick_anySurface(web, e) == e.button = 1

isMiddleClick(web, e) == web /\ e.button = 1

\* Fault: the meta key is left out of the modifier test.
isMetaKey_noMeta(web, e) == web /\ (e.altKey \/ e.ctrlKey \/ e.shiftKey)

isMetaKey(web, e) == web /\ (e.metaKey \/ e.altKey \/ e.ctrlKey \/ e.shiftKey)

shouldOpenInNewTab(web, e) == isMetaKey(web, e) \/ isMiddleClick(web, e)

\* Fault: the 'mailto' prefix is not tested.
opensViaLinking_noMailto(web, c, e) ==
    \/ shouldOpenInNewTab(web, e)
    \/ startsWith(c.href, PrefixHttp)

\* The condition of the inner `if` on an internal link.
opensViaLinking(web, c, e) ==
    \/ shouldOpenInNewTab(web, e)
    \/ startsWith(c.href, PrefixHttp)
    \/ startsWith(c.href, PrefixMailto)

\* Fault: an unsupported action falls through without an error.
dispatchNavigation_silent(c) ==
    IF c.action = "push" THEN
        <<Call("router.matchPath", "", "", c.href),
          Call("navigation.dispatch", "push", "", c.href)>>
    ELSE IF c.action = "replace" THEN
        <<Call("router.matchPath", "", "", c.href),
          Call("navigation.dispatch", "replace", "", c.href)>>
    ELSE IF c.action = "navigate" THEN
        <<Call("router.matchPath", "", "", c.href),
          Call("navigation.navigate", "navigate", "", c.href)>>
    ELSE <<>>

\* Fault: a supported transition is dispatched twice.
dispatchNavigation_twice(c) ==
    IF c.action \in {"push", "replace"} THEN
        <<Call("router.matchPath", "", "", c.href),
          Call("navigation.dispatch", c.action, "", c.href),
          Call("navigation.dispatch", c.action, "", c.href)>>
    ELSE IF c.action = "navigate" THEN
        <<Call("router.matchPath", "", "", c.href),
          Call("navigation.navigate", "navigate", "", c.href),
          Call("navigation.navigate", "navigate", "", c.href)>>
    ELSE
        <<Call("throw", "Error", "Unsupported navigator action.", <<>>)>>

\* The if / else-if chain on `action`.  The dispatched call's href names the
\* path whose router.matchPath result it carries; matchPath runs first, as
\* an argument of the dispatch.
dispatchNavigation(c) ==
    IF c.action = "push" THEN
        <<Call("router.matchPath", "", "", c.href),
          Call("navigation.dispatch", "push", "", c.href)>>
    ELSE IF c.action = "replace" THEN
        <<Call("router.matchPath", "", "", c.href),
          Call("navigation.dispatch", "replace", "", c.href)>>
    ELSE IF c.action = "navigate" THEN
        <<Call("router.matchPath", "", "", c.href),
          Call("navigation.navigate", "navigate", "", c.href)>>
    ELSE
        <<Call("throw", "Error", "Unsupported navigator action.", <<>>)>>

\* Fault: the overlay is closed after the dispatch.
navigateBranch_closeAfter(c) == dispatchNavigation(c) \o <<Ev("closeModal")>>

\* Fault: the action is validated before the overlay is closed.
navigateBranch_throwFirst(c) ==
    IF c.action \in {"push", "replace", "navigate"}
    THEN <<Ev("closeModal")>> \o dispatchNavigation(c)
    ELSE dispatchNavigation(c)

\* `closeModal()` and then the dispatch.
navigateBranch(c) == <<Ev("closeModal")>> \o dispatchNavigation(c)

\* Fault: the overlay is closed before the modifier and prefix test.
internalBranch_closeFirst(web, c, e) ==
    <<Ev("closeModal")>> \o
    (IF opensViaLinking(web, c, e)
     THEN <<Call("Linking.openURL", "", "", c.href)>>
     ELSE dispatchNavigation(c))

\* The branch taken when the link is not external.
internalBranch(web, c, e) ==
    IF opensViaLinking(web, c, e)
    THEN <<Call("Linking.openURL", "", "", c.href)>>
    ELSE navigateBranch(c)

\* Fault: the warning is shown and the link is opened in the same press.
warnBranch_noWait(c) ==
    <<Ev("preventDefault"),
      Call("openModal", "link-warning", c.displayText, c.href),
      Call("Linking.openURL", "", "", c.href)>>

\* `if (requiresWarning) {...}`
warnBranch(c) ==
    <<Ev("preventDefault"),
      Call("openModal", "link-warning", c.displayText, c.href)>>

\* Fault: the externality flag is not tested before the internal branch.
openBranch_noExternalTest(web, c, e) ==
    <<Ev("preventDefault")>> \o internalBranch(web, c, e)

\* Fault: the default action is suppressed after the link was acted on.
openBranch_preventLate(web, c, e) ==
    (IF c.isExternal
     THEN <<Call("Linking.openURL", "", "", c.href)>>
     ELSE internalBranch(web, c, e))
    \o <<Ev("preventDefault")>>

\* `else {...}`
openBranch(web, c, e) ==
    <<Ev("preventDefault")>> \o
    (IF c.isExternal
     THEN <<Call("Linking.openURL", "", "", c.href)>>
     ELSE internalBranch(web, c, e))

\* One invocation of the handler: the calls it makes, in order.
onPress(web, c, e, ret, lrw) ==
    LET callback == IF c.outerOnPress THEN <<Ev("outerOnPress")>> ELSE <<>>
    IN  IF exitsEarly(exitEarlyIfFalse(c, ret)) THEN callback
        ELSE IF requiresWarning(c, lrw) THEN callback \o warnBranch(c)
        ELSE callback \o openBranch(web, c, e)

----------------------------------------------------------------------------
\* The modal controller (useModalControls): one active overlay.

RECURSIVE modalAfter(_, _)
modalAfter(m, cs) ==
    IF cs = <<>> THEN m
    ELSE LET m1 == IF Head(cs).fn = "openModal" THEN Head(cs).name
                   ELSE IF Head(cs).fn = "closeModal" THEN "none"
                   ELSE m
         IN  modalAfter(m1, Tail(cs))

----------------------------------------------------------------------------
\* The navigation object (useNavigation): it receives every dispatch and
\* navigate call, and neither merges nor drops any.

RECURSIVE navigationAfter(_, _)
navigationAfter(n, cs) ==
    IF cs = <<>> THEN n
    ELSE navigationAfter(
             IF Head(cs).fn \in {"navigation.dispatch", "navigation.navigate"}
             THEN n + 1 ELSE n,
             Tail(cs))

----------------------------------------------------------------------------
\* Behaviour

PropsValues ==
    [children : ChildrenValues, action : ActionValues,
     warnOnMismatchingTextChild : WarnValues, onPress : BOOLEAN,
     download : DownloadValues]

LinkValues == [href : Hrefs, isExternal : BOOLEAN]

InitialProps ==
    [children |-> [isString |-> TRUE, text |-> "example.com"],
     action |-> "undefined", warnOnMismatchingTextChild |-> "undefined",
     onPress |-> FALSE, download |-> "undefined"]

InitialLink == [href |-> HrefProfile, isExternal |-> FALSE]

Init ==
    /\ isWeb \in BOOLEAN
    /\ kind \in Kinds
    /\ props = InitialProps
    /\ link = InitialLink
    /\ handler = useLinkClosure(useLinkArgs(kind, props), link)
    /\ activeModal = "none"
    /\ dispatched = 0
    /\ pc = "idle"
    /\ event = PlainEvent
    /\ cbReturn = "undefined"
    /\ mismatch = FALSE
    /\ calls = <<>>

\* A render with props p whose target resolves to lk.
Render(p, lk) ==
    /\ pc = "idle"
    /\ <<p, lk>> # <<props, link>>
    /\ props' = p
    /\ link' = lk
    /\ handler' = useCallback(handler, useLinkClosure(useLinkArgs(kind, p), lk))
    /\ UNCHANGED <<isWeb, kind, activeModal, dispatched, pc, event, cbReturn, mismatch, calls>>

RenderTo ==
    \E lk \in LinkValues : Render(props, lk)
RenderChildren ==
    \E v \in ChildrenValues : Render([props EXCEPT !.children = v], link)
RenderAction ==
    \E v \in ActionValues : Render([props EXCEPT !.action = v], link)
RenderWarn ==
    \E v \in WarnValues : Render([props EXCEPT !.warnOnMismatchingTextChild = v], link)
RenderOnPress ==
    \E v \in BOOLEAN : Render([props EXCEPT !.onPress = v], link)
RenderDownload ==
    \E v \in DownloadValues : Render([props EXCEPT !.download = v], link)

\* A press delivered to the attached handler, which runs to completion.
Press ==
    /\ pc = "idle"
    /\ handlerAttached(props)
    /\ \E e \in Events, ret \in ReturnValues, lrw \in BOOLEAN :
        /\ handler.outerOnPress \/ ret = "undefined"
        /\ calls' = onPress(isWeb, handler, e, ret, lrw)
        /\ event' = e
        /\ cbReturn' = ret
        /\ mismatch' = lrw
    /\ activeModal' = modalAfter(activeModal, calls')
    /\ dispatched' = navigationAfter(dispatched, calls')
    /\ dispatched' <= MaxDispatched
    /\ pc' = "done"
    /\ UNCHANGED <<isWeb, kind, props, link, handler>>

\* A press on an element that has no onPress attached (download set).
PressUnhandled ==
    /\ pc = "idle"
    /\ ~handlerAttached(props)
    /\ \E e \in Events : event' = e
    /\ pc' = "unhandled"
    /\ UNCHANGED <<isWeb, kind, props, link, handler, activeModal, dispatched,
                   cbReturn, mismatch, calls>>

\* Control returns to the event loop; the record of the press is dropped.
Return ==
    /\ pc # "idle"
    /\ pc' = "idle"
    /\ event' = PlainEvent
    /\ cbReturn' = "undefined"
    /\ mismatch' = FALSE
    /\ calls' = <<>>
    /\ UNCHANGED <<isWeb, kind, props, link, handler, activeModal, dispatched>>

Next ==
    \/ RenderTo
    \/ RenderChildren
    \/ RenderAction
    \/ RenderWarn
    \/ RenderOnPress
    \/ RenderDownload
    \/ Press
    \/ PressUnhandled
    \/ Return

Spec == Init /\ [][Next]_vars

TypeOK ==
    /\ isWeb \in BOOLEAN
    /\ kind \in Kinds
    /\ props \in PropsValues
    /\ link \in LinkValues
    /\ activeModal \in {"none", "link-warning"}
    /\ dispatched \in 0..MaxDispatched
    /\ pc \in {"idle", "done", "unhandled"}
    /\ event \in Events
    /\ cbReturn \in ReturnValues
    /\ mismatch \in BOOLEAN

----------------------------------------------------------------------------
\* Vocabulary of the properties: what a completed press did.

Pressed == pc = "done"

Count(cs, fn) == Cardinality({i \in DOMAIN cs : cs[i].fn = fn})
Called(fn) == \E i \in DOMAIN calls : calls[i].fn = fn
IndexOf(cs, fn) == CHOOSE i \in DOMAIN cs : cs[i].fn = fn

Dispatches(cs) == Count(cs, "navigation.dispatch") + Count(cs, "navigation.navigate")
Navigated == Dispatches(calls) > 0
Raised == Called("throw")

\* The callback did not cancel the press.
NotCancelled == cbReturn # "false"

\* The press event reports a modifier click on a pointer-capable surface.
ModifierClick ==
    isWeb /\ (event.button = 1 \/ event.metaKey \/ event.altKey
              \/ event.ctrlKey \/ event.shiftKey)

HttpOrMailto(h) == startsWith(h, PrefixHttp) \/ startsWith(h, PrefixMailto)

\* Outcome OpenExternal(h): Linking.openURL(h) once, no modal, no navigation.
OpenedExternal(h) ==
    /\ Count(calls, "Linking.openURL") = 1
    /\ calls[IndexOf(calls, "Linking.openURL")].href = h
    /\ ~Called("openModal")
    /\ ~Called("closeModal")
    /\ ~Called("router.matchPath")
    /\ ~Navigated
    /\ ~Raised

\* Outcome Warn(text, h): openModal once with the link-warning, nothing else.
Warned(text, h) ==
    /\ Count(calls, "openModal") = 1
    /\ calls[IndexOf(calls, "openModal")] = Call("openModal", "link-warning", text, h)
    /\ ~Called("Linking.openURL")
    /\ ~Called("closeModal")
    /\ ~Called("router.matchPath")
    /\ ~Navigated
    /\ ~Raised

\* Outcome Navigate(a, h): one transition of kind a carrying matchPath(h),
\* after closeModal.
NavigatedWith(a, h) ==
    LET fn == IF a = "navigate" THEN "navigation.navigate" ELSE "navigation.dispatch"
    IN  /\ Dispatches(calls) = 1
        /\ Count(calls, fn) = 1
        /\ calls[IndexOf(calls, fn)] = Call(fn, a, "", h)
        /\ Count(calls, "router.matchPath") = 1
        /\ calls[IndexOf(calls, "router.matchPath")].href = h
        /\ IndexOf(calls, "router.matchPath") < IndexOf(calls, fn)
        /\ Count(calls, "closeModal") = 1
        /\ IndexOf(calls, "closeModal") < IndexOf(calls, fn)
        /\ ~Called("openModal")
        /\ ~Called("Linking.openURL")
        /\ ~Raised

\* The unsupported-action error, raised as the last thing the press does.
RaisedUnsupported ==
    /\ Count(calls, "throw") = 1
    /\ calls[Len(calls)] = Call("throw", "Error", "Unsupported navigator action.", <<>>)
    /\ ~Navigated

----------------------------------------------------------------------------
\* C1: whenever the caller's callback returns false, the press makes none of
\* the calls openModal, Linking.openURL, closeModal, router.matchPath or a
\* navigation dispatch and raises no error, whatever the href, externality,
\* warning opt-in, display text, modifiers, surface and action.
C1_CancelledOnFalse ==
    (Pressed /\ cbReturn = "false") =>
        /\ ~Called("openModal")
        /\ ~Called("Linking.openURL")
        /\ ~Called("closeModal")
        /\ ~Called("router.matchPath")
        /\ ~Navigated
        /\ ~Raised

C1_Witness ==
    /\ Pressed
    /\ cbReturn = "false"
    /\ handler.isExternal
    /\ Truthy(handler.warnOnMismatchingTextChild)
    /\ mismatch
    /\ event.metaKey
    /\ handler.action = "pop"
    /\ calls = <<Ev("outerOnPress")>>

----------------------------------------------------------------------------
\* C2 as stated: every press without modifiers and without a cancelling
\* callback on a link classified external yields OpenExternal(href), for
\* every warning opt-in and display text.
C2_Original ==
    (Pressed /\ NotCancelled /\ handler.isExternal /\ Held(event) = 0) =>
        OpenedExternal(handler.href)

\* C2 amended: such a press never navigates (no closeModal, no
\* router.matchPath, no dispatch); it yields OpenExternal(href) unless the
\* warning opt-in is truthy, the display text is non-empty and the mismatch
\* detector flags the pair, and in that case it yields Warn.
C2_ExternalNeverNavigates ==
    (Pressed /\ NotCancelled /\ handler.isExternal /\ Held(event) = 0) =>
        /\ ~Called("closeModal")
        /\ ~Called("router.matchPath")
        /\ ~Navigated
        /\ IF /\ handler.warnOnMismatchingTextChild = "true"
              /\ handler.displayText # ""
              /\ mismatch
           THEN Warned(handler.displayText, handler.href)
           ELSE OpenedExternal(handler.href)

C2_Witness ==
    /\ Pressed
    /\ NotCancelled
    /\ handler.isExternal
    /\ handler.href = HrefOther
    /\ Held(event) = 0
    /\ handler.action = "replace"
    /\ handler.warnOnMismatchingTextChild = "true"
    /\ handler.displayText = "example.com"
    /\ ~mismatch
    /\ calls = <<Ev("preventDefault"), Call("Linking.openURL", "", "", HrefOther)>>

\* C3: a non-cancelled press on an external href with non-empty display text
\* that the mismatch detector flags: with warnings enabled it calls openModal
\* exactly once with {link-warning, displayText, href} and neither
\* Linking.openURL nor a navigation dispatch, whatever the modifiers and
\* surface; with warnings disabled it yields OpenExternal(href) and never
\* calls openModal.
C3_WarnOrOpen ==
    (Pressed /\ NotCancelled /\ handler.isExternal
      /\ handler.displayText # "" /\ mismatch) =>
        IF handler.warnOnMismatchingTextChild = "true"
        THEN Warned(handler.displayText, handler.href)
        ELSE OpenedExternal(handler.href)

C3_Witness ==
    /\ Pressed
    /\ isWeb
    /\ event.metaKey
    /\ handler.isExternal
    /\ handler.href = HrefOther
    /\ handler.displayText = "example.com"
    /\ handler.warnOnMismatchingTextChild = "true"
    /\ mismatch
    /\ calls = <<Ev("preventDefault"),
                 Call("openModal", "link-warning", "example.com", HrefOther)>>

\* C4: a non-cancelled press without modifiers on an internal href that
\* starts with neither 'http' nor 'mailto', with the action prop left to its
\* default, dispatches StackActions.push exactly once with
\* router.matchPath(href), calls closeModal before it, and the overlay is
\* closed at the moment of the dispatch whatever it was before the press.
C4_PushAfterClose ==
    [][ ( /\ pc = "idle" /\ pc' = "done"
          /\ cbReturn' # "false"
          /\ Held(event') = 0
          /\ ~handler.isExternal
          /\ ~HttpOrMailto(handler.href)
          /\ props.action = "undefined" )
        =>
        ( /\ Count(calls', "navigation.dispatch") = 1
          /\ Count(calls', "navigation.navigate") = 0
          /\ LET d == IndexOf(calls', "navigation.dispatch")
             IN  /\ calls'[d] = Call("navigation.dispatch", "push", "", handler.href)
                 /\ d > 1
                 /\ calls'[d - 1] = Call("router.matchPath", "", "", handler.href)
                 /\ \E k \in 1..(d - 1) : calls'[k].fn = "closeModal"
                 /\ modalAfter(activeModal, SubSeq(calls', 1, d - 1)) = "none"
          /\ Count(calls', "throw") = 0 ) ]_vars

C4_Witness ==
    /\ Pressed
    /\ NotCancelled
    /\ Held(event) = 0
    /\ ~handler.isExternal
    /\ handler.href = HrefProfile
    /\ props.action = "undefined"
    /\ activeModal = "none"
    /\ calls = <<Ev("preventDefault"), Ev("closeModal"),
                 Call("router.matchPath", "", "", HrefProfile),
                 Call("navigation.dispatch", "push", "", HrefProfile)>>

\* C5 as stated: on every surface a non-cancelled press with the meta
\* modifier held on an internal href yields OpenExternal(href).
C5_Original ==
    (Pressed /\ NotCancelled /\ ~handler.isExternal /\ event.metaKey) =>
        OpenedExternal(handler.href)

\* C5 amended: on a pointer-capable surface (isWeb) such a press yields
\* OpenExternal(href) and not Navigate; on any other surface the meta
\* modifier is not read, and the press yields OpenExternal only for an href
\* that starts with 'http' or 'mailto' and takes the navigation path
\* otherwise.
C5_MetaOpensExternalOnWeb ==
    (Pressed /\ NotCancelled /\ ~handler.isExternal /\ event.metaKey) =>
        IF isWeb \/ HttpOrMailto(handler.href)
        THEN OpenedExternal(handler.href)
        ELSE /\ ~Called("Linking.openURL")
             /\ Called("closeModal")
             /\ IF handler.action \in SupportedActions
                THEN NavigatedWith(handler.action, handler.href)
                ELSE RaisedUnsupported

C5_Witness ==
    /\ Pressed
    /\ NotCancelled
    /\ isWeb
    /\ event.metaKey
    /\ Held(event) = 1
    /\ ~handler.isExternal
    /\ handler.href = HrefProfile
    /\ calls = <<Ev("preventDefault"), Call("Linking.openURL", "", "", HrefProfile)>>

----------------------------------------------------------------------------
\* C6 as stated: every press the callback does not cancel, on a link whose
\* action is outside {push, replace, navigate}, ends in the raised error
\* 'Unsupported navigator action.'.
C6_Original ==
    (Pressed /\ NotCancelled /\ handler.action \notin SupportedActions) =>
        RaisedUnsupported

\* C6 amended: such a press never dispatches a navigation transition and is
\* never a silent no-op; it ends in the raised error 'Unsupported navigator
\* action.' exactly when it reaches the navigation path, that is when it does
\* not resolve to Warn and the link is internal, no modifier click is
\* detected and the href starts with neither 'http' nor 'mailto'; otherwise
\* it resolves to Warn or OpenExternal and raises nothing.
C6_UnsupportedActionRaisesOnDispatch ==
    (Pressed /\ NotCancelled /\ handler.action \notin SupportedActions) =>
        /\ ~Navigated
        /\ IF ~handler.isExternal /\ ~ModifierClick /\ ~HttpOrMailto(handler.href)
           THEN /\ RaisedUnsupported
                /\ Called("closeModal")
                /\ ~Called("Linking.openURL")
                /\ ~Called("openModal")
           ELSE \/ OpenedExternal(handler.href)
                \/ Warned(handler.displayText, handler.href)

C6_Witness ==
    /\ Pressed
    /\ NotCancelled
    /\ handler.action = "pop"
    /\ ~handler.isExternal
    /\ handler.href = HrefSearch
    /\ calls = <<Ev("preventDefault"), Ev("closeModal"),
                 Call("throw", "Error", "Unsupported navigator action.", <<>>)>>

\* C7: returning false is the only way to cancel: a press whose callback is
\* absent, or returns anything other than false, goes on to exactly one of
\* Warn, OpenExternal, Navigate or the unsupported-action error.
C7_OnlyFalseCancels ==
    (Pressed /\ (~handler.outerOnPress \/ cbReturn # "false")) =>
        \/ Warned(handler.displayText, handler.href)
        \/ OpenedExternal(handler.href)
        \/ NavigatedWith(handler.action, handler.href)
        \/ RaisedUnsupported

C7_Witness ==
    /\ Pressed
    /\ handler.outerOnPress
    /\ cbReturn = "undefined"
    /\ handler.href = HrefProfile
    /\ calls = <<Ev("outerOnPress"), Ev("preventDefault"), Ev("closeModal"),
                 Call("router.matchPath", "", "", HrefProfile),
                 Call("navigation.dispatch", "push", "", HrefProfile)>>

\* C8: a press with a supported action makes at most one call among
\* openModal, Linking.openURL and a navigation dispatch, at most once, and
\* makes none of them exactly when the callback cancelled it.
C8_ExactlyOneOutcome ==
    (Pressed /\ handler.action \in SupportedActions) =>
        LET n == Count(calls, "openModal") + Count(calls, "Linking.openURL")
                 + Dispatches(calls)
        IN  /\ n <= 1
            /\ (n = 0) <=> (cbReturn = "false")
            /\ ~Raised

C8_Witness ==
    /\ Pressed
    /\ handler.action = "navigate"
    /\ handler.outerOnPress
    /\ cbReturn = "true"
    /\ calls = <<Ev("outerOnPress"), Ev("preventDefault"), Ev("closeModal"),
                 Call("router.matchPath", "", "", HrefSearch),
                 Call("navigation.navigate", "navigate", "", HrefSearch)>>

\* C9: a press on a Link never calls openModal, whatever its href, children
\* and props, and a press on an InlineLink whose children are not a string
\* never calls openModal; so only an InlineLink with a string child warns.
C9_OnlyInlineStringChildWarns ==
    (Pressed /\ (kind = "Link" \/ ~props.children.isString)) =>
        ~Called("openModal")

C9_Witness ==
    /\ Pressed
    /\ kind = "Link"
    /\ props.warnOnMismatchingTextChild = "true"
    /\ props.children = [isString |-> TRUE, text |-> "example.com"]
    /\ link = [href |-> HrefOther, isExternal |-> TRUE]
    /\ mismatch
    /\ NotCancelled
    /\ calls = <<Ev("preventDefault"), Call("Linking.openURL", "", "", HrefOther)>>

\* C10 as stated: a press neither cancelled nor resolved to Warn yields
\* OpenExternal(href) iff isExternal, a modifier click, or an 'http' or
\* 'mailto' prefix holds, and yields Navigate otherwise.
C10_Original ==
    (Pressed /\ NotCancelled /\ ~Called("openModal")) =>
        IF handler.isExternal \/ ModifierClick \/ HttpOrMailto(handler.href)
        THEN OpenedExternal(handler.href)
        ELSE NavigatedWith(handler.action, handler.href)

\* C10 amended: such a press yields OpenExternal(href) iff isExternal OR
\* modifierClickDetected OR href starts with 'http' OR href starts with
\* 'mailto'; otherwise it takes the navigation path, which yields Navigate
\* for an action in {push, replace, navigate} and the unsupported-action
\* error for any other action.  Navigate is never reached for an href that
\* starts with 'http' or 'mailto'.
C10_OpenExternalIff ==
    (Pressed /\ NotCancelled /\ ~Called("openModal")) =>
        /\ IF handler.isExternal \/ ModifierClick \/ HttpOrMailto(handler.href)
           THEN OpenedExternal(handler.href)
           ELSE /\ ~Called("Linking.openURL")
                /\ IF handler.action \in SupportedActions
                   THEN NavigatedWith(handler.action, handler.href)
                   ELSE RaisedUnsupported
        /\ HttpOrMailto(handler.href) => ~Navigated

C10_Witness ==
    /\ Pressed
    /\ NotCancelled
    /\ ~handler.isExternal
    /\ handler.href = HrefMail
    /\ Held(event) = 0
    /\ calls = <<Ev("preventDefault"), Call("Linking.openURL", "", "", HrefMail)>>

----------------------------------------------------------------------------
\* C11: Warn only under all of its preconditions: in every press that calls
\* openModal the callback did not return false, the warning opt-in is
\* truthy, the display text is non-empty, the link is external and
\* linkRequiresWarning(href, displayText) answered true.  An internal link
\* never yields Warn, whatever its display text.
C11_WarnOnlyUnderPreconditions ==
    /\ (Pressed /\ Called("openModal")) =>
          /\ cbReturn # "false"
          /\ handler.warnOnMismatchingTextChild = "true"
          /\ handler.displayText # ""
          /\ link.isExternal
          /\ mismatch
    /\ (Pressed /\ ~link.isExternal) => ~Called("openModal")

C11_Witness ==
    /\ Pressed
    /\ ~isWeb
    /\ Held(event) = 0
    /\ kind = "InlineLink"
    /\ props.onPress
    /\ cbReturn = "undefined"
    /\ link = [href |-> HrefMail, isExternal |-> TRUE]
    /\ mismatch
    /\ calls = <<Ev("outerOnPress"), Ev("preventDefault"),
                 Call("openModal", "link-warning", "example.com", HrefMail)>>

\* C12: order of effects within one press: a registered callback is invoked
\* exactly once and before every other effect; on a press that is not
\* cancelled e.preventDefault() is called exactly once, before any of
\* openModal, Linking.openURL, closeModal and a navigation dispatch; on a
\* cancelled press the handler never calls e.preventDefault().
C12_EffectOrder ==
    Pressed =>
        /\ Count(calls, "outerOnPress") = (IF props.onPress THEN 1 ELSE 0)
        /\ props.onPress => (calls # <<>> /\ calls[1].fn = "outerOnPress")
        /\ cbReturn = "false" => ~Called("preventDefault")
        /\ cbReturn # "false" =>
              /\ Count(calls, "preventDefault") = 1
              /\ \A i \in DOMAIN calls :
                    calls[i].fn \in {"openModal", "Linking.openURL", "closeModal",
                                     "router.matchPath", "navigation.dispatch",
                                     "navigation.navigate", "throw"}
                    => IndexOf(calls, "preventDefault") < i

C12_Witness ==
    /\ Pressed
    /\ props.onPress
    /\ cbReturn = "0"
    /\ handler.action = "replace"
    /\ calls = <<Ev("outerOnPress"), Ev("preventDefault"), Ev("closeModal"),
                 Call("router.matchPath", "", "", HrefProfile),
                 Call("navigation.dispatch", "replace", "", HrefProfile)>>

----------------------------------------------------------------------------
\* C13 as stated: a press whose outcome is Cancelled, Warn or OpenExternal
\* leaves the active overlay unchanged, and a press whose outcome is
\* Navigate calls closeModal exactly once.
C13_Original ==
    [][ (pc = "idle" /\ pc' = "done") =>
        /\ (cbReturn' = "false" \/ Called("openModal")' \/ Called("Linking.openURL")')
              => (~Called("closeModal")' /\ activeModal' = activeModal)
        /\ Navigated' => Count(calls', "closeModal") = 1 ]_vars

\* C13 amended: closeModal is called only on the internal-navigation path.
\* A press whose outcome is Cancelled or OpenExternal (an internal link
\* opened externally included) leaves the active overlay unchanged; a press
\* whose outcome is Warn does not call closeModal, and the only change it
\* makes to the overlay is the link-warning it opens; a press whose outcome
\* is Navigate calls closeModal exactly once.
C13_CloseModalOnlyOnNavigationPath ==
    [][ (pc = "idle" /\ pc' = "done") =>
        /\ (cbReturn' = "false" \/ Called("Linking.openURL")')
              => (~Called("closeModal")' /\ activeModal' = activeModal)
        /\ Called("openModal")'
              => (~Called("closeModal")' /\ activeModal' = "link-warning")
        /\ Navigated'
              => (Count(calls', "closeModal") = 1 /\ activeModal' = "none")
        /\ Called("closeModal")'
              => /\ cbReturn' # "false"
                 /\ ~link.isExternal
                 /\ ~ModifierClick'
                 /\ ~HttpOrMailto(link.href)
                 /\ ~Called("openModal")'
                 /\ ~Called("Linking.openURL")' ]_vars

C13_Witness ==
    /\ Pressed
    /\ isWeb
    /\ event.shiftKey
    /\ ~link.isExternal
    /\ link.href = HrefSearch
    /\ activeModal = "link-warning"
    /\ calls = <<Ev("preventDefault"), Call("Linking.openURL", "", "", HrefSearch)>>

----------------------------------------------------------------------------
\* C14: on a surface without pointer-modifier detection (isWeb = false) the
\* modifier inputs do not influence the outcome: whatever button, metaKey,
\* altKey, ctrlKey and shiftKey the event of a press reports, the press makes
\* the calls, with the same arguments, that the handler makes for the plain
\* event when all other inputs are the same; so any two such presses agree.
C14_ModifiersIgnoredOffWeb ==
    (Pressed /\ ~isWeb) =>
        calls = onPress(FALSE, handler, PlainEvent, cbReturn, mismatch)

C14_Witness ==
    /\ Pressed
    /\ ~isWeb
    /\ event.button = 1
    /\ ~link.isExternal
    /\ link.href = HrefProfile
    /\ handler.action = "navigate"
    /\ calls = <<Ev("preventDefault"), Ev("closeModal"),
                 Call("router.matchPath", "", "", HrefProfile),
                 Call("navigation.navigate", "navigate", "", HrefProfile)>>

----------------------------------------------------------------------------
\* C15: no stale resolution: after any sequence of re-renders the handler
\* holds the href, isExternal, displayText, warning opt-in, action and
\* callback of the most recent render, and a press is resolved with them.
C15_NoStaleResolution ==
    /\ handler.href = link.href
    /\ handler.isExternal = link.isExternal
    /\ handler.displayText =
          (IF props.children.isString THEN props.children.text ELSE "")
    /\ handler.warnOnMismatchingTextChild =
          (IF kind = "InlineLink" THEN props.warnOnMismatchingTextChild
           ELSE "undefined")
    /\ handler.action = (IF props.action = "undefined" THEN "push" ELSE props.action)
    /\ handler.outerOnPress = props.onPress
    /\ Pressed =>
          \A i \in DOMAIN calls :
             /\ calls[i].fn \in {"openModal", "Linking.openURL", "router.matchPath",
                                 "navigation.dispatch", "navigation.navigate"}
                   => calls[i].href = link.href
             /\ calls[i].fn = "openModal" => calls[i].text = props.children.text
             /\ calls[i].fn \in {"navigation.dispatch", "navigation.navigate"}
                   => calls[i].name = (IF props.action = "undefined" THEN "push"
                                       ELSE props.action)

C15_Witness ==
    /\ Pressed
    /\ kind = "InlineLink"
    /\ link = [href |-> HrefOther, isExternal |-> TRUE]
    /\ props.children = [isString |-> TRUE, text |-> ""]
    /\ props.warnOnMismatchingTextChild = "true"
    /\ props.action = "navigate"
    /\ props.onPress
    /\ mismatch
    /\ calls = <<Ev("outerOnPress"), Ev("preventDefault"),
                 Call("Linking.openURL", "", "", HrefOther)>>

----------------------------------------------------------------------------
\* C16: presses are resolved independently, one at a time, and are neither
\* debounced nor de-duplicated: a press starts only when no other is
\* running; whether it resolves to Navigate is decided by its own inputs,
\* whatever earlier presses did; and each press that resolves to Navigate
\* adds exactly one transition to those the navigation object has received,
\* after its own closeModal, while any other press adds none.  So N such
\* presses produce exactly N dispatches, in delivery order.
C16_EachPressDispatchesItsOwn ==
    [][ (pc' = "done" /\ pc # "done") =>
        LET navigates ==
                /\ cbReturn' # "false"
                /\ ~link.isExternal
                /\ ~ModifierClick'
                /\ ~HttpOrMailto(link.href)
                /\ handler.action \in SupportedActions
        IN  /\ pc = "idle"
            /\ dispatched' = dispatched + (IF navigates THEN 1 ELSE 0)
            /\ navigates => NavigatedWith(handler.action, link.href)'
            /\ ~navigates => ~Navigated' ]_vars

C16_Witness ==
    /\ Pressed
    /\ dispatched = 2
    /\ NotCancelled
    /\ link.href = HrefProfile
    /\ props.action = "push"
    /\ calls = <<Ev("preventDefault"), Ev("closeModal"),
                 Call("router.matchPath", "", "", HrefProfile),
                 Call("navigation.dispatch", "push", "", HrefProfile)>>

----------------------------------------------------------------------------
\* C17: the unsupported-action error is raised only at the point of dispatch
\* on the internal-navigation path: whenever it is raised, e.preventDefault()
\* and closeModal() were already called in that press and no navigation was
\* dispatched; a press that is Cancelled, resolves to Warn or resolves to
\* OpenExternal never raises it, whatever the action value.
C17_ErrorOnlyAtDispatch ==
    /\ (Pressed /\ Raised) =>
          /\ RaisedUnsupported
          /\ Count(calls, "preventDefault") = 1
          /\ Count(calls, "closeModal") = 1
          /\ IndexOf(calls, "preventDefault") < IndexOf(calls, "closeModal")
          /\ IndexOf(calls, "closeModal") < IndexOf(calls, "throw")
          /\ ~Called("router.matchPath")
          /\ handler.action \notin SupportedActions
          /\ ~link.isExternal
          /\ ~ModifierClick
          /\ ~HttpOrMailto(link.href)
    /\ (Pressed /\ (cbReturn = "false" \/ Called("openModal")
                     \/ Called("Linking.openURL"))) => ~Raised

C17_Witness ==
    /\ Pressed
    /\ props.action = "pop"
    /\ props.onPress
    /\ cbReturn = "true"
    /\ activeModal = "none"
    /\ calls = <<Ev("outerOnPress"), Ev("preventDefault"), Ev("closeModal"),
                 Call("throw", "Error", "Unsupported navigator action.", <<>>)>>

====
